---- MODULE Spec2Model ----
(***************************************************************************)
(* A model of miniassistant's conversation engine:                         *)
(*   - the cancellation registry            (cancellation.py)              *)
(*   - the tool-calling loop chat_round     (chat_loop.py)                 *)
(*   - the turn entry handle_user_input and the Matrix ingress             *)
(*   - the authorization store              (chat_auth.py)                 *)
(*   - the scheduler job file and engine    (scheduler.py)                 *)
(* Texts are sequences of tokens; every token stands for a piece of text   *)
(* of a fixed number of characters, so that the token estimate, the trim   *)
(* and the compaction are computed as the code computes them.              *)
(***************************************************************************)
EXTENDS Integers, Sequences, FiniteSets, TLC

VARIABLES
    flags,      \* cancellation._flags: user -> "none" | "stop" | "abort"
    sessions,   \* matrix_sessions[user]["messages"]
    chatCtx,    \* config["_chat_context"] (user id of the bound context, or "none")
    turn,       \* one record per running handle_user_input/chat_round invocation
    pendingF,   \* auth/pending_codes.json: set of [code, user, exp]
    authF,      \* auth/authorized.json: set of users
    authOp,     \* one record per thread working on the authorization store
    authLog,    \* history of the store: codes issued, successful redemptions
    now,        \* the clock (seconds)
    jobsF,      \* schedules.json: the list of job entries
    engine,     \* the jobs registered with the in-process cron engine
    schedOp,    \* one record per thread working on the scheduler
    schedLog,   \* what the scheduler threads have done, in order
    pendingImages, \* matrix_bot/discord_bot._pending_images: sender -> images
    sub         \* the run of a sub-agent (_run_subagent_with_tools)

vars == <<flags, sessions, chatCtx, turn, pendingF, authF, authOp, authLog, now,
          jobsF, engine, schedOp, schedLog, pendingImages, sub>>

loopVars  == <<flags, sessions, chatCtx, turn>>
authVars  == <<pendingF, authF, authOp, authLog>>
schedVars == <<jobsF, engine, schedOp, schedLog>>
botVars   == <<pendingImages>>
subVars   == <<sub>>

Max(a, b) == IF a >= b THEN a ELSE b
Min(a, b) == IF a <= b THEN a ELSE b

(***************************************************************************)
(* Texts                                                                   *)
(***************************************************************************)
\* Characters a token stands for.
\*   "a"  a block of visible answer text
\*   "_"  the two newlines in front of the cancellation marker
\*   "M"  the cancellation marker "*(Verarbeitung abgebrochen)*"
\*   "X"  a <tool_call>{...}</tool_call> block written into the content
\*   "u"  the user's input, "r" a tool result, "e" a tool error result
\*   "S"  a compaction summary, "N" the nudge text, "W" the wrap-up text
\*   "I"  the prefix "[Bild angehaengt] " (a-umlaut), "K" the text "[Bild]" typed by a user
BlockChars == 3000
CharLen(tok) ==
    CASE tok = "a" -> BlockChars
      [] tok = "_" -> 2
      [] tok = "M" -> 28
      [] tok = "X" -> 60
      [] tok = "u" -> 30
      [] tok = "r" -> 40
      [] tok = "e" -> 40
      [] tok = "S" -> 600
      [] tok = "N" -> 98
      [] tok = "W" -> 560
      [] tok = "I" -> 17
      [] tok = "K" -> 6
      [] OTHER     -> 1

RECURSIVE TextLen(_)
TextLen(s) == IF s = <<>> THEN 0 ELSE CharLen(Head(s)) + TextLen(Tail(s))

IsSpace(tok) == tok = "_"

RECURSIVE LStrip(_)
LStrip(s) == IF s # <<>> /\ IsSpace(Head(s)) THEN LStrip(Tail(s)) ELSE s

RECURSIVE RStrip(_)
RStrip(s) ==
    IF s # <<>> /\ IsSpace(s[Len(s)]) THEN RStrip(SubSeq(s, 1, Len(s) - 1)) ELSE s

\* str.strip()
Strip(s) == RStrip(LStrip(s))

\* "\n\n*(Verarbeitung abgebrochen)*"
CancelMarker == <<"_", "M">>

EndsWithMarker(s) == s # <<>> /\ s[Len(s)] = "M"

(***************************************************************************)
(* Messages                                                                *)
(***************************************************************************)
\* images: the message carries an "images" list (base64 payloads)
Msg(role, content, calls, name) ==
    [role |-> role, content |-> content, calls |-> calls, name |-> name,
     images |-> FALSE]

UserMsg(content)           == Msg("user", content, <<>>, "")
UserImageMsg(content, images) == [UserMsg(content) EXCEPT !.images = images]
AssistantMsg(content)      == Msg("assistant", content, <<>>, "")
ToolCallMsg(content, tcs)  == Msg("assistant", content, tcs, "")
ToolMsg(name, content)     == Msg("tool", content, <<>>, name)
SummaryMsg(content)        == Msg("system", content, <<>>, "")

RoleLen(role) ==
    CASE role = "user" -> 4
      [] role = "assistant" -> 9
      [] role = "tool" -> 4
      [] role = "system" -> 6
      [] OTHER -> 0

\* json.dumps(tool_calls): brackets plus about 70 characters per call
CallJsonChars == 70
CallsJsonLen(calls) == 2 + CallJsonChars * Len(calls)

EstimateTokens(len) == IF len = 0 THEN 0 ELSE Max(1, len \div 3)

MessageTokensEstimate(m) ==
    EstimateTokens(RoleLen(m.role) + TextLen(m.content)
                   + (IF m.calls # <<>> THEN CallsJsonLen(m.calls) ELSE 0))

RECURSIVE MessagesTokenEstimate(_)
MessagesTokenEstimate(ms) ==
    IF ms = <<>> THEN 0
    ELSE MessageTokensEstimate(Head(ms)) + MessagesTokenEstimate(Tail(ms))

(***************************************************************************)
(* The configuration the loop consumes                                     *)
(***************************************************************************)
NumCtx        == 4096     \* providers.<p>.num_ctx of the configured models
QuotaPct      == 85       \* chat.context_quota, in percent
ReserveTokens == 1024
SystemTokens  == 500      \* estimate of the bound system prompt
ToolsTokens   == 300      \* estimate of the serialised tools schema
MaxToolRounds == 2        \* max_tool_rounds

\* resolve_model: an alias is replaced by the model name it stands for
ResolveModel(m) == IF m = "b" THEN "B" ELSE m

RECURSIVE Resolved(_)
Resolved(fbs) ==
    IF fbs = <<>> THEN <<>> ELSE <<ResolveModel(Head(fbs))>> \o Resolved(Tail(fbs))

InList(m, list) == \E i \in 1..Len(list) : list[i] = m

\* [m for m in list if m not in other]
RECURSIVE Without(_, _)
Without(list, other) ==
    IF list = <<>> THEN <<>>
    ELSE (IF InList(Head(list), other) THEN <<>> ELSE <<Head(list)>>)
         \o Without(Tail(list), other)

\* chat_round, lines 2002-2009: models.fallbacks, then the global fallbacks
\* that are not among them; the session model first, the others behind it
ModelsToTry(cfg) ==
    LET perProvFb == Resolved(cfg.perProv)
        globalFb  == Resolved(cfg.global)
        fallbacks == perProvFb \o Without(globalFb, perProvFb)
    IN  <<cfg.model>> \o Without(fallbacks, <<cfg.model>>)

\* int(num_ctx * min(max(quota, 0.5), 0.95))
ContextBudget(numCtx) == (numCtx * Min(Max(QuotaPct, 50), 95)) \div 100

RECURSIVE PopFrontUntilFits(_, _)
PopFrontUntilFits(out, budget) ==
    IF out # <<>> /\ MessagesTokenEstimate(out) > budget
    THEN PopFrontUntilFits(Tail(out), budget)
    ELSE out

TrimMessagesToFit(messages, maxCtx) ==
    IF messages = <<>> THEN <<>>
    ELSE LET cur     == messages[Len(messages)]
             history == SubSeq(messages, 1, Len(messages) - 1)
             budget  == Max(0, maxCtx - ReserveTokens - SystemTokens - ToolsTokens
                                - MessageTokensEstimate(cur))
         IN  IF MessagesTokenEstimate(history) <= budget THEN messages
             ELSE Append(PopFrontUntilFits(history, budget), cur)

NeedsCompacting(messages, numCtx) ==
    /\ Len(messages) >= 6
    /\ SystemTokens + ToolsTokens + MessagesTokenEstimate(messages) > ContextBudget(numCtx)

\* the index of the first message kept as "recent": walking from the newest
\* message, keep while the kept estimate stays within the reserve (one at least)
RECURSIVE RecentStart(_, _, _, _)
RecentStart(messages, i, kept, reserve) ==
    IF i = 0 THEN 1
    ELSE LET t == MessageTokensEstimate(messages[i])
         IN  IF kept + t > reserve /\ i < Len(messages) THEN i + 1
             ELSE RecentStart(messages, i - 1, kept + t, reserve)

\* _format_messages_for_summary(old) is blank when no old message has content
\* or tool calls
SummaryTextBlank(old) ==
    \A i \in 1..Len(old) : Strip(old[i].content) = <<>> /\ old[i].calls = <<>>

\* the summary is put behind the recent messages
CompactHistorySummaryLast(messages, numCtx, summaryOk) ==
    LET reserve == (numCtx * 15) \div 100
        start   == RecentStart(messages, Len(messages), 0, reserve)
    IN  Append(SubSeq(messages, start, Len(messages)), SummaryMsg(<<"S">>))

\* summaryOk: the summary call succeeded with a non-empty summary
CompactHistory(messages, numCtx, summaryOk) ==
    LET msgBudget == Max(0, ContextBudget(numCtx) - (SystemTokens + ToolsTokens))
        reserve   == (numCtx * 15) \div 100
        start     == RecentStart(messages, Len(messages), 0, reserve)
        recent    == SubSeq(messages, start, Len(messages))
        old       == SubSeq(messages, 1, start - 1)
    IN  IF MessagesTokenEstimate(messages) <= msgBudget THEN messages
        ELSE IF old = <<>> THEN messages
        ELSE IF SummaryTextBlank(old) THEN recent
        ELSE IF ~summaryOk THEN PopFrontUntilFits(messages, msgBudget)
        ELSE <<SummaryMsg(<<"S">>)>> \o recent

(***************************************************************************)
(* What the environment supplies                                           *)
(***************************************************************************)
Users  == {"u1"}
Turns  == {1, 2}
Levels == {"stop", "abort"}

\* the text of the inbound message a turn is started with
InputOf(t) == IF t = 1 THEN <<"u">> ELSE <<"v">>

\* Adapter responses: content and native tool_calls (function names).
Responses ==
    { [content |-> <<"a">>, calls |-> <<>>],
      [content |-> <<>>,    calls |-> <<>>],
      [content |-> <<>>,    calls |-> <<"web_search">>],
      [content |-> <<"a">>, calls |-> <<"web_search", "send_image">>],
      [content |-> <<"a">>, calls |-> <<"exec">>],
      [content |-> <<"X">>, calls |-> <<>>] }

\* Adapter failures: a timeout is retried, an authentication error is not.
Failures == {"timeout", "auth"}

\* All kinds of failure of a call: httpx.TimeoutException ("timeout"),
\* httpx.RemoteProtocolError ("protocol"), HTTP status 400 ("http400"), another
\* HTTP status ("auth"), a RuntimeError of the adapter ("runtime"), and an
\* exception the retry loop does not catch, such as ConnectError ("connect")
FailureKinds == {"timeout", "protocol", "http400", "auth", "runtime", "connect"}

\* for attempt in range(3); time.sleep(2)
MaxAttempts == 3
RetryPauseSeconds == 2

\* every failure is retried
RetryableAlways(kind, stream) == TRUE

\* the failures after which the call is attempted again: chat_round retries
\* timeouts, protocol errors and HTTP 400, chat_round_stream timeouts and HTTP 400
Retryable(kind, stream) ==
    IF stream THEN kind \in {"timeout", "http400"}
    ELSE kind \in {"timeout", "protocol", "http400"}

\* Tool result strings: a result, or an error text ("Error: ...",
\* "File not found: ...", "send_image failed: ...")
ToolResults == {<<"r">>, <<"e">>}
ResultOk(result) == result = <<"r">>

\* _run_tool, the exec branch: run_exec(cmd, cwd=..., extra_env=...) is a call
\* with a keyword run_exec(command, timeout, cwd) does not have, a TypeError
\* that nothing in _run_tool catches
ToolRaises(name) == name = "exec"

\* <tool_call> blocks in the content, one web_search call each
RECURSIVE XmlCalls(_)
XmlCalls(content) ==
    IF content = <<>> THEN <<>>
    ELSE (IF Head(content) = "X" THEN <<"web_search">> ELSE <<>>)
         \o XmlCalls(Tail(content))

\* _extract_tool_calls: the native calls, else the calls written as XML
ExtractToolCalls(content, calls) == IF calls # <<>> THEN calls ELSE XmlCalls(content)

(***************************************************************************)
(* The cancellation registry                                               *)
(***************************************************************************)
RequestCancelFlags(f, u, level) == [f EXCEPT ![u] = level]
CheckCancel(f, u)               == f[u]
ClearCancelFlags(f, u)          == [f EXCEPT ![u] = "none"]

(***************************************************************************)
(* A turn: handle_user_input and chat_round                                *)
(***************************************************************************)
\* the fallbacks of a configuration without any
DefaultConfig == [model |-> "A", perProv |-> <<>>, global |-> <<>>]

OffTurn ==
    [pc |-> "off", user |-> "none", stream |-> FALSE, input |-> <<>>,
     images |-> 0,
     cfg |-> DefaultConfig, script |-> <<>>,
     seen |-> <<>>, base |-> <<>>, msgs |-> <<>>,
     lastCall |-> <<>>, midx |-> 1, attempt |-> 0, rounds |-> 0, total |-> <<>>,
     sent |-> FALSE, calls |-> <<>>, ti |-> 1, cuser |-> "none", level |-> "none",
     final |-> FALSE, lastErr |-> "none", switch |-> "none", reason |-> "none",
     out |-> <<>>, emitted |-> <<>>, stored |-> <<>>,
     \* history of the turn, for the properties
     stopped |-> FALSE, toolAfterStop |-> FALSE, stopInTools |-> FALSE,
     callAfterStop |-> FALSE, flagAtEnd |-> "none",
     tried |-> <<>>, firstErr |-> "none", imgOk |-> FALSE, imgNow |-> FALSE,
     compacted |-> FALSE, quotaMiss |-> FALSE, imgTo |-> "none",
     retried |-> {}, pause |-> 0, ran |-> 0,
     allRounds |-> 0, noCalls |-> FALSE, nudges |-> 0, nudgeDue |-> TRUE,
     wrapups |-> 0, wrapOk |-> FALSE, wrap |-> <<>>, before |-> <<>>,
     dones |-> 0, errored |-> FALSE, nth |-> 0,
     stopInSub |-> FALSE, subCancelled |-> FALSE, flagAtReturn |-> "none", callAfterSubCancel |-> FALSE]

IdleTurn == [OffTurn EXCEPT !.pc = "idle"]

InLoop(t) == turn[t].pc \in {"call", "check", "tools", "sub"}

\* models_to_try of the turn
ModelsOf(r) == ModelsToTry(r.cfg)

\* chat_round, lines 2032-2041: a model of models_to_try starts from the
\* compacted history plus the user message
StartModel(r) ==
    [r EXCEPT !.msgs = Append(r.base, UserImageMsg(r.input, r.images > 0)),
              !.total = <<>>, !.sent = FALSE, !.imgNow = FALSE,
              !.rounds = 0, !.attempt = 0, !.retried = {}, !.pause = 0,
              !.calls = <<>>, !.ti = 1, !.pc = "call",
              !.tried = Append(@, ModelsOf(r)[r.midx])]

\* /stop or /abort from the chat surface (matrix_bot.on_message,
\* discord_bot.on_message); it addresses the turns of that chat user
OnStop(u, level) ==
    /\ flags' = RequestCancelFlags(flags, u, level)
    /\ turn' = [t \in Turns |->
                 IF turn[t].user = u /\ ~turn[t].stream /\ InLoop(t)
                 THEN [turn[t] EXCEPT !.stopped = TRUE,
                                      !.stopInTools = @ \/ turn[t].pc = "tools",
                                      !.stopInSub = @ \/ turn[t].pc = "sub"]
                 ELSE turn[t]]
    /\ UNCHANGED <<sessions, chatCtx>>
    /\ UNCHANGED <<authVars, schedVars, now, botVars, subVars>>

\* a text message of an authorized user: _get_chat_response binds the chat
\* context, handle_user_input injects it into the (shared) config
OnMessage(t, u) ==
    /\ turn[t].pc = "idle"
    /\ chatCtx' = u
    /\ turn' = [turn EXCEPT ![t] = [@ EXCEPT !.pc = "clear", !.user = u,
                                              !.input = InputOf(t)]]
    /\ UNCHANGED <<flags, sessions>>
    /\ UNCHANGED <<authVars, schedVars, now, botVars, subVars>>

\* a message on the web API's streaming endpoint: _chat_stream_generator runs
\* chat_round_stream on the session's own config, which binds no chat context
OnStreamMessage(t, u) ==
    /\ turn[t].pc = "idle"
    /\ turn' = [turn EXCEPT ![t] = [@ EXCEPT !.pc = "enter", !.user = u,
                                              !.stream = TRUE, !.input = InputOf(t)]]
    /\ UNCHANGED <<flags, sessions, chatCtx>>
    /\ UNCHANGED <<authVars, schedVars, now, botVars, subVars>>

\* handle_user_input: "Stale cancellation flags bereinigen"
ClearStale(t) ==
    /\ turn[t].pc = "clear"
    /\ flags' = ClearCancelFlags(flags, turn[t].user)
    /\ turn' = [turn EXCEPT ![t] = [@ EXCEPT !.pc = "enter"]]
    /\ UNCHANGED <<sessions, chatCtx>>
    /\ UNCHANGED <<authVars, schedVars, now, botVars, subVars>>

\* chat_round entry: the fallback lists of the configuration are read, the
\* session's messages are compacted if needed
EnterRound(t, env) ==
    /\ turn[t].pc = "enter"
    /\ \E summaryOk \in env.summaries, cfg \in env.configs :
         LET messages == sessions[turn[t].user]
             needed == NeedsCompacting(messages, NumCtx)
             compacted == IF needed
                          THEN CompactHistory(messages, NumCtx, summaryOk)
                          ELSE messages
         IN  turn' = [turn EXCEPT ![t] =
                        StartModel([@ EXCEPT !.seen = messages, !.base = compacted,
                                             !.cfg = cfg, !.compacted = needed])]
    /\ UNCHANGED <<flags, sessions, chatCtx>>
    /\ UNCHANGED <<authVars, schedVars, now, botVars, subVars>>

\* What the adapter answers to the next call of a turn: any of the
\* environment's answers, or, when the answers are laid down beforehand, the
\* next one of the turn's script (a plain text answer once it is used up)
PlainAnswer == [fail |-> "none", content |-> <<"a">>, calls |-> <<>>]

NextEvent(r) == IF r.script = <<>> THEN PlainAnswer ELSE Head(r.script)

EnvFor(r, env) ==
    IF ~env.scripted THEN env
    ELSE LET ev == NextEvent(r)
         IN  [env EXCEPT
                !.responses = IF ev.fail = "none"
                              THEN {[content |-> ev.content, calls |-> ev.calls]}
                              ELSE {},
                !.failures = IF ev.fail = "none" THEN {} ELSE {ev.fail},
                !.partials = IF ev.fail = "none" THEN {<<>>} ELSE {ev.content}]

Consume(r) == [r EXCEPT !.script = IF @ = <<>> THEN @ ELSE Tail(@)]

\* chat_round, the except clause of the model loop: remember the error, go on
\* with the next model of models_to_try, or raise when none is left.
\* chat_round_stream: the done event carries the error and the list built so far
Raise(r, kind) ==
    LET r1 == [r EXCEPT !.lastErr = kind,
                        !.firstErr = IF @ = "none" THEN kind ELSE @]
    IN  IF r.stream
        THEN [r1 EXCEPT !.final = TRUE, !.out = r.total, !.pc = "ret",
                        !.dones = @ + 1, !.errored = TRUE]
        ELSE IF r.midx < Len(ModelsOf(r))
        THEN StartModel([r1 EXCEPT !.midx = @ + 1])
        ELSE [r1 EXCEPT !.pc = "failed", !.errored = TRUE]

\* one adapter call of the round: trim, dispatch, then either retry, raise, or
\* append the assistant message
AfterResponse(r, resp) ==
    LET tcs   == IF r.stream THEN resp.calls
                 ELSE ExtractToolCalls(resp.content, resp.calls)
        cuser == IF r.stream THEN "none" ELSE chatCtx
        total == r.total \o resp.content
        r1    == [r EXCEPT !.total = total, !.noCalls = tcs = <<>>,
                           !.emitted = IF r.stream THEN @ \o resp.content ELSE @]
    IN  IF tcs = <<>>
        THEN [r1 EXCEPT !.msgs = Append(r.msgs, AssistantMsg(resp.content)),
                        !.pc = "post"]
        ELSE [r1 EXCEPT !.msgs = Append(r.msgs, ToolCallMsg(resp.content, resp.calls)),
                        !.calls = tcs, !.ti = 1,
                        !.cuser = cuser,
                        !.pc = IF cuser # "none" THEN "check" ELSE "tools"]

\* system + tools + messages above the context quota
OverQuota(ms) ==
    SystemTokens + ToolsTokens + MessagesTokenEstimate(ms) > ContextBudget(NumCtx)

ModelCall(t, env) ==
    /\ turn[t].pc = "call"
    /\ LET r == turn[t]
           e == EnvFor(r, env)
           trimmed == TrimMessagesToFit(r.msgs, NumCtx)
           r0 == [Consume(r) EXCEPT
                    !.msgs = trimmed, !.lastCall = trimmed,
                    !.callAfterStop = @ \/ r.stopInTools,
                    !.callAfterSubCancel = @ \/ r.subCancelled,
                    !.quotaMiss = @ \/ (OverQuota(r.msgs)
                                        /\ ~(r.rounds = 0 /\ r.compacted))]
       IN  \/ \E resp \in e.responses :
                turn' = [turn EXCEPT ![t] = AfterResponse(r0, resp)]
           \/ \E kind \in e.failures, part \in e.partials :
                LET r1 == [r0 EXCEPT !.emitted = IF r.stream THEN @ \o part ELSE @]
                IN  turn' = [turn EXCEPT ![t] =
                               IF Retryable(kind, r.stream) /\ r1.attempt < MaxAttempts - 1
                               THEN [r1 EXCEPT !.attempt = @ + 1,
                                               !.retried = @ \cup {kind},
                                               !.pause = @ + RetryPauseSeconds]
                               ELSE Raise(r1, kind)]
    /\ UNCHANGED <<flags, sessions, chatCtx>>
    /\ UNCHANGED <<authVars, schedVars, now, botVars, subVars>>

\* check_cancel(_cancel_user)
CancelCheck(t) ==
    /\ turn[t].pc = "check"
    /\ LET level == CheckCancel(flags, turn[t].cuser)
       IN  turn' = [turn EXCEPT ![t] =
                      [@ EXCEPT !.level = level,
                                !.pc = IF level # "none" THEN "clr" ELSE "tools"]]
    /\ UNCHANGED <<flags, sessions, chatCtx>>
    /\ UNCHANGED <<authVars, schedVars, now, botVars, subVars>>

\* clear_cancel(_cancel_user)
CancelClear(t) ==
    /\ turn[t].pc = "clr"
    /\ flags' = ClearCancelFlags(flags, turn[t].cuser)
    /\ turn' = [turn EXCEPT ![t] = [@ EXCEPT !.pc = "integrate"]]
    /\ UNCHANGED <<sessions, chatCtx>>
    /\ UNCHANGED <<authVars, schedVars, now, botVars, subVars>>

\* the marker is appended, the turn's list is final, the loop returns:
\* chat_round with the content as it is, chat_round_stream with the content
\* suppressed after send_image
CancelIntegrate(t) ==
    /\ turn[t].pc = "integrate"
    /\ LET r == turn[t]
           total == r.total \o CancelMarker
       IN  turn' = [turn EXCEPT ![t] =
                      [r EXCEPT !.total = total,
                                !.msgs = Append(@, AssistantMsg(Strip(total))),
                                !.emitted = IF r.stream THEN @ \o CancelMarker ELSE @,
                                !.final = TRUE,
                                !.dones = IF r.stream THEN @ + 1 ELSE @,
                                !.out = IF r.stream /\ r.sent THEN <<>> ELSE Strip(total),
                                !.pc = "ret"]]
    /\ UNCHANGED <<flags, sessions, chatCtx>>
    /\ UNCHANGED <<authVars, schedVars, now, botVars, subVars>>

\* an exception out of _run_tool: chat_round's "except Exception" takes it for
\* a failure of the model; chat_round_stream calls _run_tool outside of any
\* try, the generator ends without a done event
ToolRaise(r) ==
    IF r.stream
    THEN [r EXCEPT !.lastErr = "TypeError", !.firstErr = IF @ = "none" THEN "TypeError" ELSE @,
                   !.errored = TRUE, !.pc = "failed"]
    ELSE Raise(r, "TypeError")

\* _run_tool on the next call of the round, its result appended as a tool message
RunTool(t, env) ==
    /\ turn[t].pc = "tools"
    /\ turn[t].calls[turn[t].ti] # "invoke_model"
    /\ LET r    == turn[t]
           name == r.calls[r.ti]
           last == r.ti = Len(r.calls)
       IN  IF ToolRaises(name)
           THEN turn' = [turn EXCEPT ![t] =
                           ToolRaise([r EXCEPT !.toolAfterStop = @ \/ r.stopped])]
           ELSE \E result \in env.results :
                  LET ok == name = "send_image" /\ ResultOk(result)
                  IN  turn' = [turn EXCEPT ![t] =
                        [r EXCEPT !.msgs = Append(r.msgs, ToolMsg(name, result)),
                                  !.sent = @ \/ name = "send_image",
                                  !.imgOk = @ \/ ok,
                                  !.imgNow = @ \/ ok,
                                  !.ran = @ + 1,
                                  !.imgTo = IF name = "send_image" THEN chatCtx ELSE @,
                                  !.toolAfterStop = @ \/ r.stopped,
                                  !.callAfterSubCancel = @ \/ r.subCancelled,
                                  !.ti = @ + 1,
                                  !.rounds = IF last THEN @ + 1 ELSE @,
                                  !.allRounds = IF last THEN @ + 1 ELSE @,
                                  !.attempt = IF last THEN 0 ELSE @,
                                  !.retried = IF last THEN {} ELSE @,
                                  !.pause = IF last THEN 0 ELSE @,
                                  !.pc = IF ~last THEN "tools"
                                         ELSE IF r.rounds + 1 < MaxToolRounds THEN "call"
                                         ELSE "post"]]
    /\ UNCHANGED <<flags, sessions, chatCtx>>
    /\ UNCHANGED <<authVars, schedVars, now, botVars, subVars>>

\* after the rounds: the wrap-up call or the nudge call, the suppression of the
\* text after send_image, switch_info; the loop returns
Finish(r) ==
    LET total    == IF r.sent /\ Strip(r.total) # <<>> THEN <<>> ELSE r.total
        switched == ~r.stream /\ ModelsOf(r)[r.midx] # r.cfg.model
    IN  [r EXCEPT !.total = total,
                  !.switch = IF switched THEN ModelsOf(r)[r.midx] ELSE "none",
                  !.reason = IF switched THEN r.lastErr ELSE "none",
                  !.final = TRUE,
                  !.dones = IF r.stream THEN @ + 1 ELSE @,
                  !.out = Strip(total),
                  !.pc = "ret"]

\* "rounds >= max_tool_rounds and not _sent_image": the wrap-up call is due
NeedsWrapUp(r) == r.rounds >= MaxToolRounds /\ ~r.sent

\* the nudge call is due whatever the content
NeedsNudgeAlways(r) == ~r.sent

\* "not total_content.strip() and not _sent_image": the nudge call is due
NeedsNudge(r) == Strip(r.total) = <<>> /\ ~r.sent

\* the wrap-up content is appended to the content
WrapUpContentAppended(total, wc) == total \o wc

\* "if wrapup_content: total_content = wrapup_content"
WrapUpContent(total, wc) == IF wc # <<>> THEN wc ELSE total

PostRounds(t, env) ==
    /\ turn[t].pc = "post"
    /\ LET r == turn[t]
           e == EnvFor(r, env)
       IN
       IF NeedsWrapUp(r)
       THEN LET r1 == [Consume(r) EXCEPT
                         !.msgs = Append(@, UserMsg(<<"W">>)),
                         !.lastCall = Append(r.msgs, UserMsg(<<"W">>)),
                         !.wrapups = @ + 1, !.before = r.total,
                         !.callAfterStop = @ \/ r.stopInTools]
            IN  \/ \E resp \in e.responses :
                     LET wc == Strip(resp.content)
                     IN  turn' = [turn EXCEPT ![t] =
                                    Finish([r1 EXCEPT
                                              !.total = WrapUpContent(@, wc),
                                              !.wrapOk = TRUE, !.wrap = resp.content,
                                              !.emitted = IF r.stream THEN @ \o wc ELSE @,
                                              !.msgs = Append(@, AssistantMsg(wc))])]
                \/ \E kind \in e.failures : turn' = [turn EXCEPT ![t] = Finish(r1)]
       ELSE IF NeedsNudge(r)
       THEN LET r1 == [Consume(r) EXCEPT
                         !.msgs = Append(@, UserMsg(<<"N">>)),
                         !.lastCall = Append(r.msgs, UserMsg(<<"N">>)),
                         !.nudges = @ + 1,
                         !.nudgeDue = r.noCalls /\ Strip(r.total) = <<>> /\ ~r.sent,
                         !.callAfterStop = @ \/ r.stopInTools]
            IN  \/ \E resp \in e.responses :
                     turn' = [turn EXCEPT ![t] =
                                Finish([r1 EXCEPT
                                          !.total = @ \o resp.content,
                                          !.emitted = IF r.stream THEN @ \o resp.content
                                                      ELSE @,
                                          !.msgs = Append(@, AssistantMsg(resp.content))])]
                \/ \E kind \in e.failures : turn' = [turn EXCEPT ![t] = Finish(r1)]
       ELSE turn' = [turn EXCEPT ![t] = Finish(r)]
    /\ UNCHANGED <<flags, sessions, chatCtx>>
    /\ UNCHANGED <<authVars, schedVars, now, botVars, subVars>>

\* "[Bild]" in content
HasBild(content) == InList("K", content)

\* the payloads are deleted and no prefix is written
StripImagesUnmarked(ms) == [i \in 1..Len(ms) |-> [ms[i] EXCEPT !.images = FALSE]]

\* handle_user_input 2702-2707 and _chat_stream_generator 1072-1077: the
\* payloads are deleted, and a user message that carried one gets the prefix
\* unless its text already contains "[Bild]"
StripImages(ms) ==
    [i \in 1..Len(ms) |->
       IF ms[i].images
       THEN [ms[i] EXCEPT !.images = FALSE,
                          !.content = IF ms[i].role = "user" /\ ~HasBild(@)
                                      THEN <<"I">> \o @ ELSE @]
       ELSE ms[i]]

\* handle_user_input after chat_round: the returned list, its image payloads
\* removed, becomes the session's
StoreSession(t) ==
    /\ turn[t].pc = "ret"
    /\ sessions' = [sessions EXCEPT ![turn[t].user] = StripImages(turn[t].msgs)]
    /\ turn' = [turn EXCEPT ![t] =
                  [@ EXCEPT !.stored = StripImages(turn[t].msgs),
                            !.flagAtEnd = flags[turn[t].user],
                            !.pc = "done"]]
    /\ UNCHANGED <<flags, chatCtx>>
    /\ UNCHANGED <<authVars, schedVars, now, botVars, subVars>>

(***************************************************************************)
(* Specifications of the loop                                              *)
(***************************************************************************)
\* A stored history of six messages that exceeds the context quota: two
\* earlier turns, the first with one tool round.
LongHistory ==
    << UserMsg(<<"u">>), ToolCallMsg(<<"a">>, <<"web_search">>),
       ToolMsg("web_search", <<"r">>),
       AssistantMsg(<<"a">>), UserMsg(<<"u">>), AssistantMsg(<<"a">>) >>

Histories == {<<>>, LongHistory}

InitLoopVars(on, histories) ==
    /\ flags = [u \in Users |-> "none"]
    /\ sessions \in [Users -> histories]
    /\ chatCtx = "none"
    /\ turn = [t \in Turns |-> IF t \in on THEN IdleTurn ELSE OffTurn]

\* what the model, the tools and the summary call may answer
LoopEnv ==
    [responses |-> Responses, failures |-> Failures, results |-> ToolResults,
     summaries |-> BOOLEAN, partials |-> {<<>>},
     configs |-> {[model |-> "A", perProv |-> <<"B">>, global |-> <<>>]},
     scripted |-> FALSE]

TurnStep(t) ==
    \/ \E u \in Users : OnMessage(t, u)
    \/ \E u \in Users : OnStreamMessage(t, u)
    \/ ClearStale(t)
    \/ EnterRound(t, LoopEnv)
    \/ ModelCall(t, LoopEnv)
    \/ CancelCheck(t)
    \/ CancelClear(t)
    \/ CancelIntegrate(t)
    \/ RunTool(t, LoopEnv)
    \/ PostRounds(t, LoopEnv)
    \/ StoreSession(t)

NextLoop ==
    \/ \E u \in Users, level \in Levels : OnStop(u, level)
    \/ \E t \in Turns : TurnStep(t)

\* Two messages of one user in flight: the model answers with text or with one
\* web_search call, nothing fails, nobody cancels.
SessionEnv ==
    [responses |-> {r \in Responses : r.calls \in {<<>>, <<"web_search">>}
                                      /\ r.content \in {<<>>, <<"a">>}},
     failures |-> {}, results |-> {<<"r">>}, summaries |-> {TRUE},
     partials |-> {<<>>}, configs |-> {DefaultConfig}, scripted |-> FALSE]

SessionStep(t) ==
    \/ \E u \in Users : OnMessage(t, u)
    \/ ClearStale(t)
    \/ EnterRound(t, SessionEnv)
    \/ ModelCall(t, SessionEnv)
    \/ CancelCheck(t)
    \/ RunTool(t, SessionEnv)
    \/ PostRounds(t, SessionEnv)
    \/ StoreSession(t)

NextSession == \E t \in Turns : SessionStep(t)

\* The fallback lists a configuration may hold: models.fallbacks of the
\* provider and the global fallbacks, by name or by alias ("b" stands for "B")
FallbackConfigs ==
    { [model |-> "A", perProv |-> p, global |-> g] :
        p \in {<<>>, <<"B">>, <<"B", "C">>, <<"b", "B">>, <<"A", "B">>},
        g \in {<<>>, <<"C">>, <<"B", "C">>} }

\* One turn of chat_round under these configurations: the model answers with
\* text or with one web_search call, or fails
FallbackEnv ==
    [responses |-> {r \in Responses : r.calls \in {<<>>, <<"web_search">>}
                                      /\ (r.content = <<"a">> \/ r.calls # <<>>)},
     failures |-> Failures, results |-> {<<"r">>}, summaries |-> {TRUE},
     partials |-> {<<>>}, configs |-> FallbackConfigs, scripted |-> FALSE]

FallbackStep(t) ==
    \/ \E u \in Users : OnMessage(t, u)
    \/ ClearStale(t)
    \/ EnterRound(t, FallbackEnv)
    \/ ModelCall(t, FallbackEnv)
    \/ CancelCheck(t)
    \/ CancelClear(t)
    \/ CancelIntegrate(t)
    \/ RunTool(t, FallbackEnv)
    \/ PostRounds(t, FallbackEnv)
    \/ StoreSession(t)

NextFallback ==
    \/ \E u \in Users, level \in Levels : OnStop(u, level)
    \/ \E t \in Turns : FallbackStep(t)

\* What the adapter does on one call: an answer, or a failure; a stream that
\* fails may have delivered a part of the content before
ScriptEvents ==
    { [fail |-> "none", content |-> r.content, calls |-> r.calls] : r \in Responses }
    \cup { [fail |-> "timeout", content |-> c, calls |-> <<>>] : c \in {<<>>, <<"a">>} }
    \cup { [fail |-> "auth", content |-> <<>>, calls |-> <<>>] }

ScriptLen == 3
Scripts == [1..ScriptLen -> ScriptEvents]

\* The two loops side by side: the answers are laid down beforehand, the tools
\* and the summary call succeed, the session model has one fallback
TwinEnv ==
    [responses |-> {}, failures |-> {}, results |-> {<<"r">>}, summaries |-> {TRUE},
     partials |-> {<<>>},
     configs |-> {[model |-> "A", perProv |-> <<"B">>, global |-> <<>>]},
     scripted |-> TRUE]

\* the same text goes to handle_user_input (as in OnMessage) and to the
\* streaming endpoint (as in OnStreamMessage), and the adapter will answer the
\* calls of either loop in the same way
OnTwinMessage(u, script) ==
    /\ turn[1].pc = "idle" /\ turn[2].pc = "idle"
    /\ chatCtx' = u
    /\ turn' = [turn EXCEPT
                  ![1] = [@ EXCEPT !.pc = "clear", !.user = u,
                                   !.input = InputOf(1), !.script = script],
                  ![2] = [@ EXCEPT !.pc = "enter", !.user = u, !.stream = TRUE,
                                   !.input = InputOf(1), !.script = script]]
    /\ UNCHANGED <<flags, sessions>>
    /\ UNCHANGED <<authVars, schedVars, now, botVars, subVars>>

TwinStep(t) ==
    \/ ClearStale(t)
    \/ EnterRound(t, TwinEnv)
    \/ ModelCall(t, TwinEnv)
    \/ CancelCheck(t)
    \/ RunTool(t, TwinEnv)
    \/ PostRounds(t, TwinEnv)

\* chat_round is run to its end first, chat_round_stream after it: the two
\* share nothing but the input and the script
NextTwin ==
    \/ \E u \in Users, script \in Scripts : OnTwinMessage(u, script)
    \/ TwinStep(1)
    \/ turn[1].pc \in {"ret", "failed"} /\ TwinStep(2)

(***************************************************************************)
(* The authorization store (chat_auth.py)                                  *)
(***************************************************************************)
CodeValiditySeconds == 1800
TickSeconds == 900      \* the clock advances in steps of fifteen minutes
MaxTime     == 2700     \* the clock stops here

\* The threads that use the store: the event loop, on which the bots answer
\* unauthorized senders with a code and the web API redeems codes, and an
\* executor thread, on which a chat turn redeems a code given with /auth.
AuthThreads == {1, 2}
EventLoop   == 1
AuthUsers   == {"x", "y"}
Codes       == {"c1", "c2", "c3"}
FewCodes    == {"c1", "c2"}

\* A JSON file: its parsed content, or a file that does not parse because
\* open(path, "w") has truncated it and json.dump has not been flushed yet
File(data) == [ok |-> TRUE, data |-> data]
Torn       == [ok |-> FALSE, data |-> {}]

\* _load_json: the default when the file cannot be parsed
LoadJson(file) == IF file.ok THEN file.data ELSE {}

\* _pending_data: the entries that have not expired
PendingData(file, t) == {e \in LoadJson(file) : e.exp > t}

AuthIdleOp ==
    [pc |-> "idle", kind |-> "none", user |-> "none", code |-> "none",
     file |-> "none", wdata |-> {}, after |-> "idle", expired |-> FALSE]

\* get_or_generate_code, first read: an unexpired code of this identity is
\* returned again (and the filtered data saved), else generate_code follows
BeginGetCode(i, u) ==
    /\ i = EventLoop
    /\ authOp[i].pc = "idle"
    /\ LET data  == PendingData(pendingF, now)
           found == {e \in data : e.user = u}
       IN  IF found # {}
           THEN \E e \in found :
                  authOp' = [authOp EXCEPT ![i] =
                               [AuthIdleOp EXCEPT !.pc = "trunc", !.kind = "get",
                                                  !.user = u, !.code = e.code,
                                                  !.file = "pending", !.wdata = data,
                                                  !.after = "idle"]]
           ELSE authOp' = [authOp EXCEPT ![i] =
                             [AuthIdleOp EXCEPT !.pc = "generate", !.kind = "get",
                                                !.user = u]]

GetOrGenerateCode(i, u) ==
    /\ BeginGetCode(i, u)
    /\ UNCHANGED <<pendingF, authF, authLog, now>>
    /\ UNCHANGED <<loopVars, schedVars, botVars, subVars>>

\* generate_code: a new random code, the pending data read again, the entry added
GenerateCodeFrom(i, codes) ==
    /\ authOp[i].pc = "generate"
    /\ \E c \in codes \ {e.code : e \in authLog.issued} :
         LET entry == [code |-> c, user |-> authOp[i].user,
                       exp |-> now + CodeValiditySeconds]
             data  == {e \in PendingData(pendingF, now) : e.code # c} \cup {entry}
         IN  /\ authOp' = [authOp EXCEPT ![i] =
                             [@ EXCEPT !.pc = "trunc", !.code = c, !.file = "pending",
                                       !.wdata = data, !.after = "idle"]]
             /\ authLog' = [authLog EXCEPT !.issued = @ \cup {entry}]
    /\ UNCHANGED <<pendingF, authF, now>>
    /\ UNCHANGED <<loopVars, schedVars, botVars, subVars>>

GenerateCode(i) == GenerateCodeFrom(i, FewCodes)

\* _save_json, first half: open(path, "w") truncates the file
SaveJsonOpen(i) ==
    /\ authOp[i].pc = "trunc"
    /\ IF authOp[i].file = "pending"
       THEN pendingF' = Torn /\ UNCHANGED authF
       ELSE authF' = Torn /\ UNCHANGED pendingF
    /\ authOp' = [authOp EXCEPT ![i] = [@ EXCEPT !.pc = "write"]]
    /\ UNCHANGED <<authLog, now>>
    /\ UNCHANGED <<loopVars, schedVars, botVars, subVars>>

\* consume_code has returned (platform, user_id)
Redeemed(log, op) ==
    [log EXCEPT !.redeemed[op.code] = Min(2, @ + 1),
                !.authorized = @ \cup {op.user},
                !.late = @ \/ op.expired]

\* _save_json, second half: the data is written and the file closed
SaveJsonClose(i) ==
    /\ authOp[i].pc = "write"
    /\ IF authOp[i].file = "pending"
       THEN pendingF' = File(authOp[i].wdata) /\ UNCHANGED authF
       ELSE authF' = File(authOp[i].wdata) /\ UNCHANGED pendingF
    /\ authOp' = [authOp EXCEPT ![i] =
                    IF authOp[i].after = "idle" THEN AuthIdleOp
                    ELSE [@ EXCEPT !.pc = authOp[i].after]]
    /\ authLog' = IF authOp[i].kind = "consume" /\ authOp[i].file = "auth"
                  THEN Redeemed(authLog, authOp[i])
                  ELSE authLog
    /\ UNCHANGED now
    /\ UNCHANGED <<loopVars, schedVars, botVars, subVars>>

ConsumeCodeIgnoringExpiry(i, c) ==
    /\ authOp[i].pc = "idle"
    /\ LET data  == LoadJson(pendingF)
           found == {e \in data : e.code = c}
       IN  IF found = {}
           THEN authOp' = authOp
           ELSE \E e \in found :
                  authOp' = [authOp EXCEPT ![i] =
                     [AuthIdleOp EXCEPT !.pc = "trunc", !.kind = "consume",
                                        !.user = e.user, !.code = c,
                                        !.file = "pending", !.wdata = data \ found,
                                        !.expired = now > e.exp,
                                        !.after = "add_authorized"]]
    /\ UNCHANGED <<pendingF, authF, authLog, now>>
    /\ UNCHANGED <<loopVars, schedVars, botVars, subVars>>

\* consume_code up to the decision: the entry is popped from the data read;
\* unknown: None; expired: the data is saved, None; else the data is saved and
\* add_authorized follows
ConsumeCode(i, c) ==
    /\ authOp[i].pc = "idle"
    /\ LET data  == LoadJson(pendingF)
           found == {e \in data : e.code = c}
       IN  IF found = {}
           THEN authOp' = authOp
           ELSE \E e \in found :
                  authOp' = [authOp EXCEPT ![i] =
                     [AuthIdleOp EXCEPT !.pc = "trunc", !.kind = "consume",
                                        !.user = e.user, !.code = c,
                                        !.file = "pending", !.wdata = data \ found,
                                        !.expired = now > e.exp,
                                        !.after = IF now > e.exp THEN "idle"
                                                  ELSE "add_authorized"]]
    /\ UNCHANGED <<pendingF, authF, authLog, now>>
    /\ UNCHANGED <<loopVars, schedVars, botVars, subVars>>

\* add_authorized: the list is read; a known identity is left alone, a new one
\* is appended and the list saved
AddAuthorized(i) ==
    /\ authOp[i].pc = "add_authorized"
    /\ LET data == LoadJson(authF)
       IN  IF authOp[i].user \in data
           THEN /\ authOp' = [authOp EXCEPT ![i] = AuthIdleOp]
                /\ authLog' = Redeemed(authLog, authOp[i])
           ELSE /\ authOp' = [authOp EXCEPT ![i] =
                                [@ EXCEPT !.pc = "trunc", !.file = "auth",
                                          !.wdata = data \cup {authOp[i].user},
                                          !.after = "idle"]]
                /\ UNCHANGED authLog
    /\ UNCHANGED <<pendingF, authF, now>>
    /\ UNCHANGED <<loopVars, schedVars, botVars, subVars>>

\* time passes
Tick ==
    /\ now < MaxTime
    /\ now' = now + TickSeconds
    /\ UNCHANGED <<loopVars, authVars, schedVars, botVars, subVars>>

InitAuthVars ==
    /\ pendingF = File({})
    /\ authF = File({})
    /\ authOp = [i \in AuthThreads |-> AuthIdleOp]
    /\ authLog = [issued |-> {}, redeemed |-> [c \in Codes |-> 0],
                  authorized |-> {}, late |-> FALSE]

AuthStep(i) ==
    \/ \E u \in AuthUsers : GetOrGenerateCode(i, u)
    \/ GenerateCode(i)
    \/ SaveJsonOpen(i)
    \/ SaveJsonClose(i)
    \/ \E c \in FewCodes : ConsumeCode(i, c)
    \/ AddAuthorized(i)

NextAuth ==
    \/ \E i \in AuthThreads : AuthStep(i)
    \/ Tick

\* code requests on the event loop while a worker thread redeems codes
\* ("/auth CODE" sent through a chat), within the validity of the codes
CodesStep(i) ==
    \/ \E u \in AuthUsers : GetOrGenerateCode(i, u)
    \/ GenerateCodeFrom(i, Codes)
    \/ SaveJsonOpen(i)
    \/ SaveJsonClose(i)
    \/ i # EventLoop /\ \E c \in Codes : ConsumeCode(i, c)
    \/ AddAuthorized(i)

NextCodes == \E i \in AuthThreads : CodesStep(i)

(***************************************************************************)
(* The scheduler (scheduler.py)                                            *)
(***************************************************************************)
SchedThreads == {1, 2}
JobIds       == {"j1", "j2"}
MaxRestarts  == 1

\* What is created under each id: a date job ("in N minutes") or a cron job
TriggerOf(id) == IF id = "j1" THEN "date" ELSE "cron"

\* the scheduler is observed until the clock reaches this time
MaxSchedTime == 900

Job(id, once, run) == [id |-> id, trigger |-> TriggerOf(id), once |-> once, run |-> run]

Ids(jobs) == {j.id : j \in jobs}

SchedIdleOp ==
    [pc |-> "idle", kind |-> "none", job |-> Job("j2", FALSE, 0), jobs |-> {},
     wdata |-> {}, after |-> "idle", found |-> FALSE]

\* _load_jobs: [] when the file cannot be parsed
LoadJobs(file) == IF file.ok THEN file.data ELSE {}

NoteRead(log, file) == [log EXCEPT !.tornRead = @ \/ ~file.ok]

\* add_scheduled_job up to _save_jobs: the entry is appended to the list read
AddScheduledJob(i, id, onceArg) ==
    /\ schedOp[i].pc = "idle"
    /\ id \notin schedLog.ids
    /\ LET once == onceArg \/ TriggerOf(id) = "date"
           job  == Job(id, once, IF TriggerOf(id) = "date" THEN now + TickSeconds ELSE 0)
           jobs == LoadJobs(jobsF) \cup {job}
       IN  /\ schedOp' = [schedOp EXCEPT ![i] =
                            [SchedIdleOp EXCEPT !.pc = "trunc", !.kind = "add",
                                                !.job = job, !.jobs = jobs,
                                                !.wdata = jobs, !.after = "register"]]
           /\ schedLog' = [NoteRead(schedLog, jobsF) EXCEPT !.ids = @ \cup {id}]
    /\ UNCHANGED <<jobsF, engine>>
    /\ UNCHANGED <<loopVars, authVars, now, botVars, subVars>>

\* _save_jobs, first half: open(path, "w") truncates the file
SaveJobsOpen(i) ==
    /\ schedOp[i].pc = "trunc"
    /\ jobsF' = Torn
    /\ schedOp' = [schedOp EXCEPT ![i] = [@ EXCEPT !.pc = "write"]]
    /\ UNCHANGED <<engine, schedLog>>
    /\ UNCHANGED <<loopVars, authVars, now, botVars, subVars>>

\* _save_jobs, second half: the list is written and the file closed
SaveJobsClose(i) ==
    /\ schedOp[i].pc = "write"
    /\ jobsF' = File(schedOp[i].wdata)
    /\ schedOp' = [schedOp EXCEPT ![i] =
                     IF schedOp[i].after = "idle" THEN SchedIdleOp
                     ELSE [@ EXCEPT !.pc = schedOp[i].after]]
    /\ UNCHANGED <<engine, schedLog>>
    /\ UNCHANGED <<loopVars, authVars, now, botVars, subVars>>

\* _add_to_scheduler: a date in the past raises; add_scheduled_job then saves
\* the list it holds without the new entry and reports the failure
AddToScheduler(i) ==
    /\ schedOp[i].pc = "register"
    /\ LET op == schedOp[i] IN
       IF op.job.trigger = "date" /\ op.job.run <= now
       THEN /\ schedOp' = [schedOp EXCEPT ![i] =
                             [op EXCEPT !.pc = "trunc", !.wdata = op.jobs \ {op.job},
                                        !.after = "idle"]]
            /\ UNCHANGED <<engine, schedLog>>
       ELSE /\ engine' = {j \in engine : j.id # op.job.id} \cup {op.job}
            /\ schedLog' = [schedLog EXCEPT !.created = @ \cup {op.job.id}]
            /\ schedOp' = [schedOp EXCEPT ![i] = SchedIdleOp]
    /\ UNCHANGED jobsF
    /\ UNCHANGED <<loopVars, authVars, now, botVars, subVars>>

\* remove_scheduled_job up to _save_jobs
RemoveScheduledJob(i, id) ==
    /\ schedOp[i].pc = "idle"
    /\ LET jobs    == LoadJobs(jobsF)
           matches == {j \in jobs : j.id = id}
       IN  /\ schedLog' = NoteRead(schedLog, jobsF)
           /\ IF matches = {}
              THEN schedOp' = schedOp
              ELSE \E j \in matches :
                     schedOp' = [schedOp EXCEPT ![i] =
                                   [SchedIdleOp EXCEPT !.pc = "trunc", !.kind = "remove",
                                                       !.job = j, !.wdata = jobs \ matches,
                                                       !.found = TRUE,
                                                       !.after = "unregister"]]
    /\ UNCHANGED <<jobsF, engine>>
    /\ UNCHANGED <<loopVars, authVars, now, botVars, subVars>>

\* sched.remove_job(jid), at the end of remove_scheduled_job and _remove_job_by_id
EngineRemoveJob(i) ==
    /\ schedOp[i].pc = "unregister"
    /\ engine' = {j \in engine : j.id # schedOp[i].job.id}
    /\ schedLog' = [schedLog EXCEPT !.removed =
                      IF schedOp[i].found THEN @ \cup {schedOp[i].job.id} ELSE @]
    /\ schedOp' = [schedOp EXCEPT ![i] = SchedIdleOp]
    /\ UNCHANGED jobsF
    /\ UNCHANGED <<loopVars, authVars, now, botVars, subVars>>

\* the engine fires a registered job on one of its worker threads; a date
\* trigger has no further run time, so the engine drops the job as it fires
FireJob(i, j) ==
    /\ schedOp[i].pc = "idle"
    /\ j \in engine
    /\ j.trigger = "date" => now >= j.run
    /\ \A k \in SchedThreads : ~(schedOp[k].kind = "fire" /\ schedOp[k].job.id = j.id)
    /\ engine' = IF j.trigger = "date" THEN engine \ {j} ELSE engine
    /\ schedOp' = [schedOp EXCEPT ![i] =
                     [SchedIdleOp EXCEPT !.pc = "run", !.kind = "fire", !.job = j]]
    /\ schedLog' = [schedLog EXCEPT
                      !.fired = IF j.once THEN @ \cup {j.id} ELSE @,
                      !.refired = @ \/ (j.once /\ j.id \in schedLog.fired)]
    /\ UNCHANGED jobsF
    /\ UNCHANGED <<loopVars, authVars, now, botVars, subVars>>

\* _run_scheduled_job: the command and the prompt are run and the result is
\* sent to the chat client; only then a one-shot job is removed
RunScheduledJob(i) ==
    /\ schedOp[i].pc = "run"
    /\ LET j == schedOp[i].job IN
       /\ schedLog' = [schedLog EXCEPT !.notified = @ \cup
                         {[id |-> j.id, once |-> j.once,
                           inFile |-> j.once /\ j.id \in Ids(LoadJobs(jobsF)),
                           inEngine |-> j.once /\ j.id \in Ids(engine)]}]
       /\ schedOp' = [schedOp EXCEPT ![i] =
                        IF j.once THEN [@ EXCEPT !.pc = "remove_by_id"] ELSE SchedIdleOp]
    /\ UNCHANGED <<jobsF, engine>>
    /\ UNCHANGED <<loopVars, authVars, now, botVars, subVars>>

\* _remove_job_by_id up to _save_jobs: the file is rewritten only when the job
\* is in the list read
RemoveJobById(i) ==
    /\ schedOp[i].pc = "remove_by_id"
    /\ LET jobs      == LoadJobs(jobsF)
           remaining == {j \in jobs : j.id # schedOp[i].job.id}
       IN  /\ schedLog' = NoteRead(schedLog, jobsF)
           /\ schedOp' = [schedOp EXCEPT ![i] =
                 IF remaining # jobs
                 THEN [@ EXCEPT !.pc = "trunc", !.wdata = remaining, !.found = TRUE,
                                !.after = "unregister"]
                 ELSE [@ EXCEPT !.pc = "unregister"]]
    /\ UNCHANGED <<jobsF, engine>>
    /\ UNCHANGED <<loopVars, authVars, now, botVars, subVars>>

\* the process is restarted, whatever its threads were doing is gone, and
\* start_scheduler_if_enabled runs before anything else: date jobs in the past
\* are dropped from the file, the others registered
StartSchedulerIfEnabled ==
    /\ schedLog.restarts < MaxRestarts
    /\ LET jobs    == LoadJobs(jobsF)
           expired == {j \in jobs : j.trigger = "date" /\ j.run <= now}
       IN  /\ engine' = jobs \ expired
           /\ jobsF' = IF expired # {} THEN File(jobs \ expired) ELSE jobsF
           /\ schedLog' = [NoteRead(schedLog, jobsF) EXCEPT
                              !.restarts = @ + 1,
                              !.removed = @ \cup Ids(expired)]
    /\ schedOp' = [i \in SchedThreads |-> SchedIdleOp]
    /\ UNCHANGED <<loopVars, authVars, now, botVars, subVars>>

InitSchedVars ==
    /\ jobsF = File({})
    /\ engine = {}
    /\ schedOp = [i \in SchedThreads |-> SchedIdleOp]
    /\ schedLog = [ids |-> {}, created |-> {}, removed |-> {}, notified |-> {},
                   tornRead |-> FALSE, restarts |-> 0, fired |-> {}, refired |-> FALSE]

SchedStep(i) ==
    \/ \E id \in JobIds, once \in BOOLEAN : AddScheduledJob(i, id, once)
    \/ SaveJobsOpen(i)
    \/ SaveJobsClose(i)
    \/ AddToScheduler(i)
    \/ \E id \in JobIds : RemoveScheduledJob(i, id)
    \/ EngineRemoveJob(i)
    \/ \E j \in engine : FireJob(i, j)
    \/ RunScheduledJob(i)
    \/ RemoveJobById(i)

\* time passes
SchedTick ==
    /\ now < MaxSchedTime
    /\ now' = now + TickSeconds
    /\ UNCHANGED <<loopVars, authVars, schedVars, botVars, subVars>>

NextSched ==
    \/ \E i \in SchedThreads : SchedStep(i)
    \/ StartSchedulerIfEnabled
    \/ SchedTick

(***************************************************************************)
(* A sub-agent (_run_subagent_with_tools, _run_subagent_openai,            *)
(* _run_subagent_anthropic, _run_subagent_google)                          *)
(***************************************************************************)
\* the names a sub-agent's model may call
SubToolNames == {"exec", "web_search", "read_url", "send_image", "schedule"}

AllowedSubToolsAll == SubToolNames \cup {"check_url"}

\* _ALLOWED_SUB_TOOLS
AllowedSubTools == {"exec", "web_search", "check_url", "read_url"}

\* tool rounds of a sub-agent (max_rounds)
MaxSubRounds == 2

\* the tool calls of one answer
SubCalls ==
    {<<>>} \cup {<<n>> : n \in SubToolNames}
           \cup {<<"send_image", n>> : n \in SubToolNames}

OffSub ==
    [pc |-> "off", rounds |-> 0, calls |-> <<>>, ti |-> 1, msgs |-> <<>>,
     content |-> FALSE, executed |-> {}, raisedBy |-> "none", cancelled |-> FALSE]

InitSubVars == sub = OffSub

\* invoke_model starts the sub-agent with the task as its user message
SubStart ==
    /\ sub.pc = "off"
    /\ sub' = [OffSub EXCEPT !.pc = "call", !.msgs = <<[name |-> "", content |-> "task"]>>]
    /\ UNCHANGED <<loopVars, authVars, schedVars, now, botVars>>

\* one round's model call: with tool calls the answer is appended and the
\* cancellation check follows; without, or on an API error answer, the loop
\* ends; an exception after the retries leaves the sub-agent
SubModelCall ==
    /\ sub.pc = "call"
    /\ IF sub.rounds >= MaxSubRounds
       THEN sub' = [sub EXCEPT !.pc = "after"]
       ELSE \/ \E calls \in SubCalls, content \in BOOLEAN :
                 sub' = IF calls = <<>>
                        THEN [sub EXCEPT !.content = @ \/ content, !.pc = "after"]
                        ELSE [sub EXCEPT !.content = @ \/ content,
                                         !.msgs = Append(@, [name |-> "", content |-> "calls"]),
                                         !.calls = calls, !.ti = 1, !.pc = "check"]
            \/ sub' = [sub EXCEPT !.content = TRUE, !.pc = "after"]
            \/ sub' = [sub EXCEPT !.pc = "raised", !.raisedBy = "api"]
    /\ UNCHANGED <<loopVars, authVars, schedVars, now, botVars>>

\* check_cancel on the user of config["_chat_context"]
SubCancelCheck ==
    /\ sub.pc = "check"
    /\ sub' = IF chatCtx # "none" /\ CheckCancel(flags, chatCtx) # "none"
              THEN [sub EXCEPT !.content = TRUE, !.cancelled = TRUE, !.pc = "after"]
              ELSE [sub EXCEPT !.pc = "tools"]
    /\ UNCHANGED <<loopVars, authVars, schedVars, now, botVars>>

\* the next tool call of the round: a name outside the allowed set gets the
\* refusal text as its result, exec goes to run_exec, the others to their tool
SubRunTool ==
    /\ sub.pc = "tools"
    /\ LET name == sub.calls[sub.ti]
           last == sub.ti = Len(sub.calls)
           done(result, ran) ==
               [sub EXCEPT !.msgs = Append(@, [name |-> name, content |-> result]),
                           !.executed = IF ran THEN @ \cup {name} ELSE @,
                           !.ti = @ + 1,
                           !.rounds = IF last THEN @ + 1 ELSE @,
                           !.pc = IF last THEN "call" ELSE "tools"]
       IN  sub' = IF name \notin AllowedSubTools THEN done("refused", FALSE)
                  ELSE IF ToolRaises(name)
                  THEN [sub EXCEPT !.pc = "raised", !.raisedBy = name]
                  ELSE done("r", TRUE)
    /\ UNCHANGED <<loopVars, authVars, schedVars, now, botVars>>

\* after the rounds: the nudge call when there is no content yet (its failure
\* is caught), then the result is returned
SubAfter ==
    /\ sub.pc = "after"
    /\ \E answered \in BOOLEAN :
         sub' = [sub EXCEPT !.content = @ \/ (sub.rounds > 0 /\ answered), !.pc = "done"]
    /\ UNCHANGED <<loopVars, authVars, schedVars, now, botVars>>

NextSub ==
    \/ SubStart
    \/ SubModelCall
    \/ SubCancelCheck
    \/ SubRunTool
    \/ SubAfter
    \/ \E u \in Users, level \in Levels : OnStop(u, level)

\* _run_tool, the invoke_model branch: the sub-agent is started with the
\* task, the parent loop waits for its result
InvokeModel(t) ==
    /\ turn[t].pc = "tools"
    /\ turn[t].calls[turn[t].ti] = "invoke_model"
    /\ sub.pc = "off"
    /\ sub' = [OffSub EXCEPT !.pc = "call", !.msgs = <<[name |-> "", content |-> "task"]>>]
    /\ turn' = [turn EXCEPT ![t] = [@ EXCEPT !.pc = "sub"]]
    /\ UNCHANGED <<flags, sessions, chatCtx>>
    /\ UNCHANGED <<authVars, schedVars, now, botVars>>

\* the sub-agent has returned its result, or raised and invoke_model has made
\* an error text of it: the parent appends the tool message and goes on with
\* the next tool call or the next round
SubReturn(t) ==
    /\ turn[t].pc = "sub"
    /\ sub.pc \in {"done", "raised"}
    /\ LET r    == turn[t]
           last == r.ti = Len(r.calls)
           result == IF sub.pc = "done" THEN <<"r">> ELSE <<"e">>
       IN  turn' = [turn EXCEPT ![t] =
                      [r EXCEPT !.msgs = Append(r.msgs, ToolMsg("invoke_model", result)),
                                !.ran = @ + 1,
                                !.toolAfterStop = @ \/ r.stopped,
                                !.subCancelled = @ \/ (sub.cancelled /\ r.stopInSub),
                                !.flagAtReturn = IF sub.cancelled THEN flags[chatCtx] ELSE @,
                                !.ti = @ + 1,
                                !.rounds = IF last THEN @ + 1 ELSE @,
                                !.allRounds = IF last THEN @ + 1 ELSE @,
                                !.attempt = IF last THEN 0 ELSE @,
                                !.retried = IF last THEN {} ELSE @,
                                !.pause = IF last THEN 0 ELSE @,
                                !.pc = IF ~last THEN "tools"
                                       ELSE IF r.rounds + 1 < MaxToolRounds THEN "call"
                                       ELSE "post"]]
    /\ sub' = [sub EXCEPT !.pc = "returned"]
    /\ UNCHANGED <<flags, sessions, chatCtx>>
    /\ UNCHANGED <<authVars, schedVars, now, botVars>>

\* the parent's model answers with text, or calls invoke_model, alone or with
\* web_search behind it
InvokeEnv ==
    [responses |-> { [content |-> <<"a">>, calls |-> <<>>],
                     [content |-> <<>>, calls |-> <<"invoke_model">>],
                     [content |-> <<>>, calls |-> <<"invoke_model", "web_search">>] },
     failures |-> {}, results |-> {<<"r">>}, summaries |-> {TRUE},
     partials |-> {<<>>}, configs |-> {DefaultConfig}, scripted |-> FALSE]

InvokeStep(t) ==
    \/ \E u \in Users : OnMessage(t, u)
    \/ ClearStale(t)
    \/ EnterRound(t, InvokeEnv)
    \/ ModelCall(t, InvokeEnv)
    \/ CancelCheck(t)
    \/ CancelClear(t)
    \/ CancelIntegrate(t)
    \/ RunTool(t, InvokeEnv)
    \/ InvokeModel(t)
    \/ SubReturn(t)
    \/ PostRounds(t, InvokeEnv)
    \/ StoreSession(t)

NextInvoke ==
    \/ \E u \in Users, level \in Levels : OnStop(u, level)
    \/ \E t \in Turns : InvokeStep(t)
    \/ SubModelCall
    \/ SubCancelCheck
    \/ SubRunTool
    \/ SubAfter

(***************************************************************************)
(* The chat bots (matrix_bot.py, discord_bot.py)                           *)
(***************************************************************************)
\* one Matrix sender and one Discord sender; both bots run on the event loop
\* of the web application and were given the same config object
BotUsers == {"m1", "d1"}
PlatformOf(u) == IF u = "d1" THEN "discord" ELSE "matrix"

\* images a sender attaches or has pending, at most
MaxImages == 2

\* the texts of inbound chat messages: plain, or containing "[Bild]"
BotTexts == {<<"u">>, <<"u", "K">>}

\* is_authorized: the identity is in the authorized list
IsAuthorized(u) == u \in LoadJson(authF)

InitBotVars == pendingImages = [u \in BotUsers |-> 0]

\* the reply with the authorization code: get_or_generate_code
ReplyWithCode(u) ==
    /\ BeginGetCode(EventLoop, u)
    /\ UNCHANGED <<pendingF, authF, authLog>>

\* _get_chat_response and handle_user_input up to chat_round, as in OnMessage,
\* with the images the bot hands over
StartTurn(t, u, text, images) ==
    /\ turn[t].pc = "idle"
    /\ chatCtx' = u
    /\ turn' = [turn EXCEPT ![t] = [@ EXCEPT !.pc = "clear", !.user = u,
                                              !.input = text, !.images = images]]

\* matrix_bot.on_image: an image event; authorized senders get the downloaded
\* image appended to their pending list
MatrixOnImage(u, downloaded) ==
    /\ PlatformOf(u) = "matrix"
    /\ authOp[EventLoop].pc = "idle"
    /\ IF ~IsAuthorized(u)
       THEN /\ ReplyWithCode(u)
            /\ UNCHANGED pendingImages
       ELSE /\ pendingImages[u] < MaxImages
            /\ pendingImages' = [pendingImages EXCEPT ![u] =
                                   IF downloaded THEN @ + 1 ELSE @]
            /\ UNCHANGED authVars
    /\ UNCHANGED <<loopVars, schedVars, now, subVars>>

\* matrix_bot.on_message with a text body: /stop and /abort first, then the
\* authorization, then the pending images are popped and the message goes to
\* handle_user_input, which answers a command without a chat round
MatrixOnMessage(t, u, kind, text) ==
    /\ PlatformOf(u) = "matrix"
    /\ authOp[EventLoop].pc = "idle"
    /\ IF kind \in Levels
       THEN /\ flags' = RequestCancelFlags(flags, u, kind)
            /\ turn' = [x \in Turns |->
                          IF turn[x].user = u /\ ~turn[x].stream /\ InLoop(x)
                          THEN [turn[x] EXCEPT !.stopped = TRUE,
                                               !.stopInTools = @ \/ turn[x].pc = "tools"]
                          ELSE turn[x]]
            /\ UNCHANGED <<sessions, chatCtx, pendingImages, authVars>>
       ELSE IF ~IsAuthorized(u)
       THEN /\ ReplyWithCode(u)
            /\ UNCHANGED <<loopVars, pendingImages>>
       ELSE /\ pendingImages' = [pendingImages EXCEPT ![u] = 0]
            /\ IF kind = "command"
               THEN UNCHANGED loopVars
               ELSE /\ StartTurn(t, u, text, pendingImages[u])
                    /\ UNCHANGED <<flags, sessions>>
            /\ UNCHANGED authVars
    /\ UNCHANGED <<schedVars, now, subVars>>

\* discord_bot.on_message: the attachments are read; images without text are
\* pended; /stop and /abort; the pending images are popped when the message
\* has none of its own; then the authorization, then handle_user_input
DiscordOnMessage(t, u, kind, text, attached) ==
    /\ PlatformOf(u) = "discord"
    /\ authOp[EventLoop].pc = "idle"
    /\ IF kind = "image"
       THEN /\ attached > 0 /\ pendingImages[u] + attached <= MaxImages
            /\ pendingImages' = [pendingImages EXCEPT ![u] = @ + attached]
            /\ UNCHANGED <<loopVars, authVars>>
       ELSE IF kind \in Levels
       THEN /\ flags' = RequestCancelFlags(flags, u, kind)
            /\ turn' = [x \in Turns |->
                          IF turn[x].user = u /\ ~turn[x].stream /\ InLoop(x)
                          THEN [turn[x] EXCEPT !.stopped = TRUE,
                                               !.stopInTools = @ \/ turn[x].pc = "tools"]
                          ELSE turn[x]]
            /\ UNCHANGED <<sessions, chatCtx, pendingImages, authVars>>
       ELSE LET popped == attached = 0 /\ pendingImages[u] > 0
                images == IF popped THEN pendingImages[u] ELSE attached
            IN  /\ pendingImages' = IF popped THEN [pendingImages EXCEPT ![u] = 0]
                                    ELSE pendingImages
                /\ IF ~IsAuthorized(u)
                   THEN /\ ReplyWithCode(u)
                        /\ UNCHANGED loopVars
                   ELSE /\ IF kind = "command"
                           THEN UNCHANGED loopVars
                           ELSE /\ StartTurn(t, u, text, images)
                                /\ UNCHANGED <<flags, sessions>>
                        /\ UNCHANGED authVars
    /\ UNCHANGED <<schedVars, now, subVars>>

\* what the model and the tools answer to the turns the bots start
BotEnv ==
    [responses |-> {r \in Responses : r.content = <<"a">> /\ ~InList("exec", r.calls)},
     failures |-> {}, results |-> {<<"r">>}, summaries |-> {TRUE},
     partials |-> {<<>>}, configs |-> {DefaultConfig}, scripted |-> FALSE]

BotKinds == {"stop", "abort", "command", "text"}

BotTurnStep(t) ==
    \/ ClearStale(t)
    \/ EnterRound(t, BotEnv)
    \/ ModelCall(t, BotEnv)
    \/ CancelCheck(t)
    \/ CancelClear(t)
    \/ CancelIntegrate(t)
    \/ RunTool(t, BotEnv)
    \/ PostRounds(t, BotEnv)
    \/ StoreSession(t)

\* an inbound event that is no text for the model: an image, /stop, /abort, a
\* command
BotEvent ==
    \/ \E u \in BotUsers, downloaded \in BOOLEAN : MatrixOnImage(u, downloaded)
    \/ \E u \in BotUsers, kind \in BotKinds \ {"text"} :
         MatrixOnMessage(1, u, kind, <<>>)
    \/ \E u \in BotUsers : DiscordOnMessage(1, u, "image", <<>>, 1)
    \/ \E u \in BotUsers, kind \in BotKinds \ {"text"}, attached \in 0..1 :
         DiscordOnMessage(1, u, kind, <<>>, attached)

BotStep(t) ==
    \/ \E u \in BotUsers, text \in BotTexts : MatrixOnMessage(t, u, "text", text)
    \/ \E u \in BotUsers, text \in BotTexts, attached \in 0..1 :
         DiscordOnMessage(t, u, "text", text, attached)
    \/ BotTurnStep(t)

NextBot ==
    \/ BotEvent
    \/ BotStep(1)
    \/ GenerateCode(EventLoop)
    \/ SaveJsonOpen(EventLoop)
    \/ SaveJsonClose(EventLoop)

\* the HTTP client of a streamed turn goes away: the response stops pulling
\* events from _chat_stream_generator, and chat_round_stream stays suspended
\* at the yield it had reached (a content delta, or the status event in
\* front of a tool)
Disconnect(t) ==
    /\ turn[t].stream /\ turn[t].pc \in {"call", "tools"}
    /\ turn' = [turn EXCEPT ![t] = [@ EXCEPT !.pc = "dropped"]]
    /\ UNCHANGED <<flags, sessions, chatCtx>>
    /\ UNCHANGED <<authVars, schedVars, now, botVars, subVars>>

StreamStep(t) ==
    \/ \E u \in Users : OnStreamMessage(t, u)
    \/ EnterRound(t, LoopEnv)
    \/ ModelCall(t, LoopEnv)
    \/ RunTool(t, LoopEnv)
    \/ PostRounds(t, LoopEnv)
    \/ StoreSession(t)
    \/ Disconnect(t)

NextStream == \E t \in Turns : StreamStep(t)

\* a turn whose adapter calls fail in any way
RetryEnv ==
    [responses |-> {r \in Responses : r.content = <<"a">> /\ r.calls \in {<<>>, <<"web_search", "send_image">>}},
     failures |-> FailureKinds, results |-> {<<"r">>}, summaries |-> {TRUE},
     partials |-> {<<>>},
     configs |-> {[model |-> "A", perProv |-> <<"B">>, global |-> <<>>]},
     scripted |-> FALSE]

RetryStep(t) ==
    \/ \E u \in Users : OnMessage(t, u)
    \/ \E u \in Users : OnStreamMessage(t, u)
    \/ ClearStale(t)
    \/ EnterRound(t, RetryEnv)
    \/ ModelCall(t, RetryEnv)
    \/ CancelCheck(t)
    \/ RunTool(t, RetryEnv)
    \/ PostRounds(t, RetryEnv)
    \/ StoreSession(t)

NextRetry == \E t \in Turns : RetryStep(t)

\* two messages of one user in flight, with /stop and /abort arriving
StaleStep(t) ==
    \/ SessionStep(t)
    \/ CancelClear(t)
    \/ CancelIntegrate(t)

NextStale ==
    \/ \E u \in Users, level \in Levels : OnStop(u, level)
    \/ \E t \in Turns : StaleStep(t)

\* the texts of the messages of a conversation: a short one and a long one
CompactTexts == {<<"u">>, <<"a">>}

\* messages of one conversation
MaxTurns == 3

\* a text message to handle_user_input or to the streaming endpoint
OnTextMessage(t, u, text, stream) ==
    /\ turn[t].pc = "idle"
    /\ chatCtx' = IF stream THEN chatCtx ELSE u
    /\ turn' = [turn EXCEPT ![t] = [@ EXCEPT !.pc = IF stream THEN "enter" ELSE "clear",
                                              !.user = u, !.stream = stream,
                                              !.input = text]]
    /\ UNCHANGED <<flags, sessions>>
    /\ UNCHANGED <<authVars, schedVars, now, botVars, subVars>>

\* the handler has returned (or raised): the next message of the conversation
\* can be taken
HandlerReturns(t) ==
    /\ turn[t].pc \in {"done", "failed"}
    /\ turn[t].nth + 1 < MaxTurns
    /\ turn' = [turn EXCEPT ![t] = [IdleTurn EXCEPT !.nth = turn[t].nth + 1]]
    /\ UNCHANGED <<flags, sessions, chatCtx>>
    /\ UNCHANGED <<authVars, schedVars, now, botVars, subVars>>

\* the model answers with text or with one web_search call, or the call fails;
\* the summary call succeeds or not
CompactEnv ==
    [responses |-> {r \in Responses : r.calls \in {<<>>, <<"web_search">>}
                                      /\ (r.content = <<"a">> \/ r.calls # <<>>)},
     failures |-> {"auth"}, results |-> {<<"r">>}, summaries |-> BOOLEAN,
     partials |-> {<<>>}, configs |-> {DefaultConfig}, scripted |-> FALSE]

CompactStep(t) ==
    \/ \E u \in Users, text \in CompactTexts, stream \in BOOLEAN :
         OnTextMessage(t, u, text, stream)
    \/ ClearStale(t)
    \/ EnterRound(t, CompactEnv)
    \/ ModelCall(t, CompactEnv)
    \/ CancelCheck(t)
    \/ RunTool(t, CompactEnv)
    \/ PostRounds(t, CompactEnv)
    \/ StoreSession(t)
    \/ HandlerReturns(t)

NextCompact == \E t \in Turns : CompactStep(t)

\* a turn from its message to its end, nobody cancelling: every answer and
\* failure of the model, every result of the tools
RoundsStep(t) ==
    \/ \E u \in Users : OnMessage(t, u)
    \/ \E u \in Users : OnStreamMessage(t, u)
    \/ ClearStale(t)
    \/ EnterRound(t, LoopEnv)
    \/ ModelCall(t, LoopEnv)
    \/ CancelCheck(t)
    \/ RunTool(t, LoopEnv)
    \/ PostRounds(t, LoopEnv)
    \/ StoreSession(t)

NextRounds == \E t \in Turns : RoundsStep(t)

\* two senders writing at the same time: text messages and /stop
CrossStep(t) ==
    \/ \E u \in BotUsers, kind \in {"stop", "text"} :
         \/ MatrixOnMessage(t, u, kind, <<"u">>)
         \/ DiscordOnMessage(t, u, kind, <<"u">>, 0)
    \/ BotTurnStep(t)

NextCross == \E t \in Turns : CrossStep(t)

(***************************************************************************)
(* The specifications                                                      *)
(***************************************************************************)
\* one turn of one user, with /stop and /abort arriving at any time
InitLoop == InitLoopVars({1}, Histories)
    /\ InitAuthVars /\ InitSchedVars /\ InitBotVars /\ InitSubVars /\ now = 0
SpecLoop == InitLoop /\ [][NextLoop]_vars

\* two inbound messages of the same user, processed at the same time
InitSession == InitLoopVars({1, 2}, {<<>>})
    /\ InitAuthVars /\ InitSchedVars /\ InitBotVars /\ InitSubVars /\ now = 0
SpecSession == InitSession /\ [][NextSession]_vars

\* one turn of one user under each configuration of the fallback lists
InitFallback == InitLoopVars({1}, {<<>>})
    /\ InitAuthVars /\ InitSchedVars /\ InitBotVars /\ InitSubVars /\ now = 0
SpecFallback == InitFallback /\ [][NextFallback]_vars

\* the same message, history and adapter answers for chat_round (turn 1) and
\* chat_round_stream (turn 2)
InitTwin == InitLoopVars({1, 2}, {<<>>})
    /\ InitAuthVars /\ InitSchedVars /\ InitBotVars /\ InitSubVars /\ now = 0
SpecTwin == InitTwin /\ [][NextTwin]_vars

\* one streamed turn whose client may go away
InitStream == InitLoop
SpecStream == InitStream /\ [][NextStream]_vars

\* one sub-agent run, with /stop arriving for the user of the chat context
InitSub ==
    /\ flags = [u \in Users |-> "none"]
    /\ sessions = [u \in Users |-> <<>>]
    /\ chatCtx \in {"none", "u1"}
    /\ turn = [t \in Turns |-> OffTurn]
    /\ InitAuthVars /\ InitSchedVars /\ InitBotVars /\ InitSubVars /\ now = 0
SpecSub == InitSub /\ [][NextSub]_vars

\* two inbound messages of the same user and the user's /stop
InitStale == InitSession
SpecStale == InitStale /\ [][NextStale]_vars

\* a conversation of several messages, one after the other, on a short or a
\* long history
InitCompact == InitLoop
SpecCompact == InitCompact /\ [][NextCompact]_vars

\* one turn whose model delegates to a sub-agent, with /stop arriving
InitInvoke == InitFallback
SpecInvoke == InitInvoke /\ [][NextInvoke]_vars

\* one turn, streamed or not, on an empty history
InitRounds == InitFallback
SpecRounds == InitRounds /\ [][NextRounds]_vars

\* one turn, streamed or not, whose adapter calls fail in every way
InitRetry == InitLoop
SpecRetry == InitRetry /\ [][NextRetry]_vars

\* the Matrix and the Discord bot: images, commands, /stop and text messages of
\* two senders, who are both authorized or both unknown
InitBot ==
    /\ flags = [u \in BotUsers |-> "none"]
    /\ sessions = [u \in BotUsers |-> <<>>]
    /\ chatCtx = "none"
    /\ turn = [t \in Turns |-> IF t = 1 THEN IdleTurn ELSE OffTurn]
    /\ pendingF = File({})
    /\ authF \in {File(BotUsers), File({})}
    /\ authOp = [i \in AuthThreads |-> AuthIdleOp]
    /\ authLog = [issued |-> {}, redeemed |-> [c \in Codes |-> 0],
                  authorized |-> {}, late |-> FALSE]
    /\ InitSchedVars /\ InitBotVars /\ InitSubVars /\ now = 0
SpecBot == InitBot /\ [][NextBot]_vars

\* the two senders, both authorized, each with a turn of their own
InitCross ==
    /\ flags = [u \in BotUsers |-> "none"]
    /\ sessions = [u \in BotUsers |-> <<>>]
    /\ chatCtx = "none"
    /\ turn = [t \in Turns |-> IdleTurn]
    /\ pendingF = File({}) /\ authF = File(BotUsers)
    /\ authOp = [i \in AuthThreads |-> AuthIdleOp]
    /\ authLog = [issued |-> {}, redeemed |-> [c \in Codes |-> 0],
                  authorized |-> {}, late |-> FALSE]
    /\ InitSchedVars /\ InitBotVars /\ InitSubVars /\ now = 0
SpecCross == InitCross /\ [][NextCross]_vars

\* the authorization store under two threads
InitAuth == InitLoopVars({}, {<<>>})
    /\ InitAuthVars /\ InitSchedVars /\ InitBotVars /\ InitSubVars /\ now = 0
SpecAuth == InitAuth /\ [][NextAuth]_vars

\* code requests and redemptions with three codes, the clock standing still
InitCodes == InitAuth
SpecCodes == InitCodes /\ [][NextCodes]_vars

\* the scheduler under two threads
InitSched == InitLoopVars({}, {<<>>})
    /\ InitAuthVars /\ InitSchedVars /\ InitBotVars /\ InitSubVars /\ now = 0
SpecSched == InitSched /\ [][NextSched]_vars

(***************************************************************************)
(* The properties                                                          *)
(***************************************************************************)
\* each message with a tool_calls list is followed by the results of its calls
Answered(ms) ==
    \A i \in 1..Len(ms) :
      LET n == Len(ms[i].calls) IN
      n > 0 =>
        /\ i + n <= Len(ms)
        /\ \A k \in 1..n : ms[i + k].role = "tool" /\ ms[i + k].name = ms[i].calls[k]
        /\ i + n < Len(ms) => ms[i + n + 1].role # "tool"

\* C1: in every list the loop passes to a model call and in the list it
\* returns as the turn's history, each assistant message with tool calls is
\* followed at once by one tool message per call, in the order of the calls.
C1_ToolCallsAnswered ==
    \A t \in Turns :
      /\ Answered(turn[t].lastCall)
      /\ turn[t].pc \in {"ret", "done"} => Answered(turn[t].msgs)

\* the list without its tool messages
RECURSIVE Outer(_)
Outer(ms) ==
    IF ms = <<>> THEN <<>>
    ELSE (IF Head(ms).role = "tool" THEN <<>> ELSE <<Head(ms).role>>) \o Outer(Tail(ms))

\* user and assistant take turns; the assistant messages of one turn (tool
\* rounds, then the answer) count as one
Alternates(roles) ==
    \A i \in 1..Len(roles) - 1 : roles[i] = "user" => roles[i + 1] = "assistant"

\* the tool calls an assistant message carries: native, else written as XML
CallsOf(m) == IF m.role = "assistant" THEN ExtractToolCalls(m.content, m.calls) ELSE <<>>

ToolsFollowCalls(ms) ==
    \A i \in 1..Len(ms) :
      ms[i].role = "tool" =>
        /\ i > 1
        /\ ms[i - 1].role = "tool" \/ CallsOf(ms[i - 1]) # <<>>

\* C2: after a turn the stored list alternates user and assistant at the outer
\* level, and a tool message stands only behind an assistant message with tool
\* calls (or behind another tool message of the same round).
C2_StoredOrdering ==
    \A t \in Turns :
      turn[t].pc = "done" =>
        /\ Alternates(Outer(turn[t].stored))
        /\ ToolsFollowCalls(turn[t].stored)

\* C3: once /stop or /abort has been issued while the turn is running, no tool
\* call is executed any more, and the content the turn returns ends with the
\* cancellation marker.
C3_StopHaltsTools ==
    \A t \in Turns :
      /\ ~turn[t].toolAfterStop
      /\ turn[t].pc = "done" /\ turn[t].stopped => EndsWithMarker(turn[t].out)

\* C4: when the flag is set while a round's tools run, no further model call is
\* issued, and the turn ends with the marker and without the flag.
C4_NoCallAfterStopInTools ==
    \A t \in Turns :
      turn[t].stopInTools =>
        /\ ~turn[t].callAfterStop
        /\ turn[t].pc = "done" =>
             EndsWithMarker(turn[t].out) /\ turn[t].flagAtEnd = "none"

\* C5: the loop clears the flag it has read only after the marker is part of
\* its reply: once clear_cancel has returned, the content ends with the marker.
C5_ClearAfterIntegration ==
    \A t \in Turns : turn[t].pc = "integrate" => EndsWithMarker(turn[t].total)

HasInput(ms, text) == \E i \in 1..Len(ms) : ms[i].role = "user" /\ ms[i].content = text

\* C6: of two messages of one user in flight together, one turn starts from the
\* list the other has stored, and the session holds the messages of both.
C6_TurnsBackToBack ==
    \A t1, t2 \in Turns :
      t1 # t2 /\ turn[t1].pc = "done" /\ turn[t2].pc = "done"
              /\ turn[t1].user = turn[t2].user =>
        /\ turn[t1].seen = turn[t2].stored \/ turn[t2].seen = turn[t1].stored
        /\ HasInput(sessions[turn[t1].user], InputOf(t1))
        /\ HasInput(sessions[turn[t1].user], InputOf(t2))

\* C7: a code is redeemed at most once, and never after its validity has passed.
C7_RedeemedOnce ==
    /\ \A c \in Codes : authLog.redeemed[c] <= 1
    /\ ~authLog.late

AuthQuiet == \A i \in AuthThreads : authOp[i].pc = "idle"
SchedQuiet == \A i \in SchedThreads : schedOp[i].pc = "idle"

\* C8: whenever no scheduler operation is under way the job file holds exactly
\* the jobs created and not removed, and no read has ever met a file in the
\* middle of a write.
C8_JobFileExact ==
    /\ ~schedLog.tornRead
    /\ SchedQuiet => jobsF.ok /\ Ids(jobsF.data) = schedLog.created \ schedLog.removed

\* C9: whenever no authorization operation is under way, every issued code
\* that is neither expired nor redeemed is in the pending file and every
\* identity a redemption has authorized is in the authorized file.
C9_AuthStoreKeepsEntries ==
    AuthQuiet =>
      /\ \A e \in authLog.issued :
           e.exp > now /\ authLog.redeemed[e.code] = 0 => e \in LoadJson(pendingF)
      /\ authLog.authorized \subseteq LoadJson(authF)

\* C10: when the result of a one-shot job is sent, the job is in neither the
\* job file nor the engine.
C10_RemovedBeforeNotify ==
    \A n \in schedLog.notified : n.once => ~n.inFile /\ ~n.inEngine

\* C11: a one-shot job that has fired is out of the job file as soon as no
\* scheduler operation is under way, and it never fires a second time.
C11_OneShotGoneAfterFire ==
    /\ ~schedLog.refired
    /\ SchedQuiet => schedLog.fired \cap Ids(LoadJobs(jobsF)) = {}

\* C12: no failure inside a tool execution ends a model's attempt or the turn:
\* the error that made the loop leave a model is never one raised by a tool.
C12_ToolFailureStaysInside ==
    \A t \in Turns : turn[t].lastErr # "TypeError"

\* the list without the repetitions of what stands earlier in it
RECURSIVE Distinct(_, _)
Distinct(list, seen) ==
    IF list = <<>> THEN <<>>
    ELSE (IF InList(Head(list), seen) THEN <<>> ELSE <<Head(list)>>)
         \o Distinct(Tail(list), Append(seen, Head(list)))

\* the session model, the provider's fallbacks, the global fallbacks
FallbackOrder(cfg) ==
    Distinct(<<cfg.model>> \o Resolved(cfg.perProv) \o Resolved(cfg.global), <<>>)

IsPrefix(a, b) == Len(a) <= Len(b) /\ a = SubSeq(b, 1, Len(a))

\* C13: the models a turn attempts are the session model, then the provider's
\* fallbacks, then the global fallbacks, in that order and each once; the
\* turn fails only when all of them have been attempted.
C13_FallbackOrderEachOnce ==
    \A t \in Turns :
      LET r == turn[t] IN
      /\ IsPrefix(r.tried, FallbackOrder(r.cfg))
      /\ r.pc = "failed" => r.tried = FallbackOrder(r.cfg)

\* C14: the result of a turn carries switch_info exactly when the model that
\* produced it is not the model the turn started with; switch_info names that
\* model, and its reason is the error that made the original model fail.
C14_SwitchInfoIffSwitched ==
    \A t \in Turns :
      turn[t].pc \in {"ret", "done"} =>
        LET r == turn[t]
            answered == ModelsOf(r)[r.midx]
        IN  /\ r.switch # "none" <=> answered # r.cfg.model
            /\ r.switch # "none" => r.switch = answered /\ r.reason = r.firstErr

\* C15: whenever chat_round returns a result, chat_round_stream, given the same
\* history, input, adapter answers and tool results, ends with the same final
\* content, the same message list and the same switch_info.
C15_StreamSameAsRound ==
    LET a == turn[1]
        b == turn[2]
    IN  a.pc = "ret" /\ b.pc \in {"ret", "failed"} /\ b.stream =>
          /\ b.pc = "ret"
          /\ b.out = a.out
          /\ b.msgs = a.msgs
          /\ b.switch = a.switch

\* C16: the deltas of the content events of a streamed turn, put together in
\* order, are the content of its done event.
C16_DeltasMakeContent ==
    \A t \in Turns :
      turn[t].stream /\ turn[t].pc \in {"ret", "done"} => turn[t].emitted = turn[t].out

\* C17: when a send_image call of the turn was successful, the content the
\* turn returns is empty, whichever way the turn ends.
C17_ImageSuppressesContent ==
    \A t \in Turns :
      turn[t].pc \in {"ret", "done"} /\ turn[t].imgOk => turn[t].out = <<>>

\* C18: the loop's sent-image state is set only when a send_image call has
\* returned a successful result.
C18_SentImageOnlyOnSuccess ==
    \A t \in Turns : turn[t].sent => turn[t].imgNow

\* C19: the messages of every adapter call (round, nudge, wrap-up), with the
\* system prompt and the tools schema, are estimated at no more than num_ctx
\* minus the reserve of 1024 tokens.
C19_CallsWithinContext ==
    \A t \in Turns :
      turn[t].lastCall # <<>> =>
        SystemTokens + ToolsTokens + MessagesTokenEstimate(turn[t].lastCall)
          <= NumCtx - ReserveTokens

\* C20: no round's model call is issued with an estimated total above
\* context_quota * num_ctx unless compaction was performed before that call.
C20_CompactionBeforeEveryCall ==
    \A t \in Turns : ~turn[t].quotaMiss


\* the user message of a finished turn, as stored
StoredUserMsg(r) == r.stored[Len(r.base) + 1]

\* no stored message carries an image payload
NoStoredPayload ==
    \A u \in DOMAIN sessions : \A i \in 1..Len(sessions[u]) : ~sessions[u][i].images

\* C21 as stated: after any turn no stored message carries an image payload, and
\* the user message of a turn that came with images has the image-attached
\* marker in its text.
C21_ImagesStrippedAndMarked ==
    /\ NoStoredPayload
    /\ \A t \in Turns :
         turn[t].pc = "done" /\ turn[t].images > 0
           => InList("I", StoredUserMsg(turn[t]).content)

\* C21 amended: after any turn no stored message carries an image payload, and
\* the user message of a turn that came with images has the image-attached
\* marker in its text unless that text already contains "[Bild]".
C21_ImagesStrippedMarkedUnlessBild ==
    /\ NoStoredPayload
    /\ \A t \in Turns :
         turn[t].pc = "done" /\ turn[t].images > 0
           => LET c == StoredUserMsg(turn[t]).content
              IN  IF HasBild(turn[t].input) THEN c = turn[t].input
                  ELSE c = <<"I">> \o turn[t].input

\* a turn that came with images, its text without "[Bild]", has been stored
C21_Witness ==
    \E t \in Turns :
      /\ turn[t].pc = "done" /\ turn[t].images > 0 /\ ~HasBild(turn[t].input)
      /\ StoredUserMsg(turn[t]).content = <<"I">> \o turn[t].input

\* C24: a consume_code call that meets an unknown or an expired code returns
\* None and writes neither the pending-code file nor the authorized list.
C24_NotFoundHasNoEffect ==
    [][\A i \in AuthThreads :
         authOp[i].kind = "consume" /\ authOp[i].expired /\ authOp'[i] # authOp[i]
           => pendingF' = pendingF /\ authF' = authF]_vars

\* C24 (amended): a consume_code call that meets an expired code returns None
\* and leaves the authorized list alone; of the pending-code file it only
\* rewrites the data without that code.
C24_NotFoundAuthorizesNobody ==
    [][\A i \in AuthThreads :
         authOp[i].kind = "consume" /\ authOp[i].expired /\ authOp'[i] # authOp[i]
           => /\ authF' = authF /\ authLog' = authLog
              /\ pendingF'.ok => \A e \in pendingF'.data : e.code # authOp[i].code]_vars

\* an expired code is being redeemed: its entry was found and the file is
\* being rewritten
C24_Witness ==
    \E i \in AuthThreads :
      authOp[i].kind = "consume" /\ authOp[i].expired /\ authOp[i].pc = "write"

\* C25: at any time the pending-code file holds at most one unexpired code of
\* an identity.
C25_OneCodePerIdentity ==
    \A u \in AuthUsers :
      Cardinality({e \in PendingData(pendingF, now) : e.user = u}) <= 1

\* C26: pending images leave a sender's pending list only into a turn of that
\* sender, all of them attached; and a turn a text message starts takes all
\* pending images of its sender, none remain pending.
C26_PendingImagesReachTurn ==
    [][/\ \A u \in BotUsers :
            pendingImages'[u] < pendingImages[u]
              => \E t \in Turns : /\ turn[t].pc = "idle" /\ turn'[t].pc = "clear"
                                  /\ turn'[t].user = u
                                  /\ turn'[t].images = pendingImages[u]
       /\ \A t \in Turns :
            turn[t].pc = "idle" /\ turn'[t].pc = "clear"
              => /\ pendingImages'[turn'[t].user] = 0
                 /\ turn'[t].images >= pendingImages[turn'[t].user]]_vars

\* C27: the context a turn's cancellation check consults, and the context its
\* send_image call delivers to, is the context of the user who started the turn.
C27_ContextOfOwnSession ==
    \A t \in Turns :
      /\ turn[t].cuser \in {"none", turn[t].user}
      /\ turn[t].imgTo \in {"none", turn[t].user}

\* C29: an identity that is not authorized has no cancel flag set, no pending
\* image, no session content and no turn.
C29_UnauthorizedLeavesNoTrace ==
    \A u \in BotUsers :
      ~IsAuthorized(u) =>
        /\ flags[u] = "none"
        /\ pendingImages[u] = 0
        /\ sessions[u] = <<>>
        /\ \A t \in Turns : turn[t].user # u

\* C30: a failed adapter call is followed by another attempt only after a
\* timeout, a transport (protocol) error or HTTP 400, there are at most three
\* attempts, and each further attempt comes after a pause of two seconds.
C30_ThreeAttemptsWithPause ==
    \A t \in Turns :
      /\ turn[t].attempt + 1 <= 3
      /\ turn[t].retried \subseteq {"timeout", "protocol", "http400"}
      /\ turn[t].pause = 2 * turn[t].attempt

\* a call has failed three times with a retryable failure and has been given up
C30_Witness ==
    \E t \in Turns :
      /\ turn[t].attempt = 2 /\ turn[t].pause = 4
      /\ turn[t].lastErr \in {"timeout", "protocol", "http400"}
      /\ turn[t].pc \in {"ret", "failed"}

\* C22: a streamed turn whose client has gone away is not left unfinished: it
\* still reaches its done event and its messages are stored.
C22_StreamRunsToCompletion ==
    \A t \in Turns : turn[t].pc # "dropped"

RECURSIVE ToolMessages(_)
ToolMessages(ms) ==
    IF ms = <<>> THEN 0
    ELSE (IF Head(ms).role = "tool" THEN 1 ELSE 0) + ToolMessages(Tail(ms))

\* C28: the list a turn returns holds a tool message for every tool execution
\* of the turn.
C28_ToolRunsAreRecorded ==
    \A t \in Turns :
      turn[t].pc = "ret"
        => ToolMessages(turn[t].msgs) >= ToolMessages(turn[t].base) + turn[t].ran

\* C31: a turn performs at most the round cap of tool rounds in total.
C31_RoundsWithinCap ==
    \A t \in Turns : turn[t].allRounds <= MaxToolRounds

C35_OneDoneEvent ==
    \A t \in Turns :
      turn[t].stream /\ turn[t].pc \in {"ret", "done", "failed"}
        => turn[t].dones = 1

\* C36: a turn that ended in failure leaves the session's list as the turn
\* found it.
C36_FailedTurnStoresNothing ==
    \A t \in Turns :
      turn[t].errored => sessions[turn[t].user] = turn[t].seen

\* C34: a cancel flag set while a turn of the user is in its loop, and not yet
\* observed by that turn, is removed only by the clear_cancel of a turn that
\* has observed it, never by the start of another turn.
C34_FlagSurvivesNewTurn ==
    [][\A u \in Users :
         /\ flags[u] # "none" /\ flags'[u] = "none"
         /\ \E t \in Turns : /\ turn[t].user = u /\ InLoop(t)
                             /\ turn[t].stopped /\ turn[t].level = "none"
         => \E t \in Turns : /\ turn[t].user = u /\ turn[t].pc = "clr"
                             /\ turn'[t].pc = "integrate"]_vars

\* C37: after a compaction the estimate of the first call of the turn (system
\* prompt, tools schema, compacted messages and the new user message) is
\* within the context quota.
C37_CompactedFitsQuota ==
    \A t \in Turns :
      turn[t].compacted
        => ~OverQuota(Append(turn[t].base, UserMsg(turn[t].input)))

\* C38: in a session's list a system message is the compaction summary and
\* the first element.
C38_SummaryOnlyAtHead ==
    \A u \in Users : \A i \in 1..Len(sessions[u]) :
      sessions[u][i].role = "system"
        => i = 1 /\ sessions[u][i].content = <<"S">>

\* a list that began with a summary has been compacted again and stored with
\* its new summary
C38_Witness ==
    \E t \in Turns :
      /\ turn[t].pc = "done" /\ turn[t].compacted
      /\ turn[t].seen # <<>> /\ turn[t].seen[1].role = "system"
      /\ sessions[turn[t].user][1].role = "system"

\* C39: when a sub-agent has stopped on a cancel flag set while it was
\* running, the flag is still set
\* as control returns to the parent loop, and the parent issues no tool call
\* and no model call after it.
C39_ParentCancelledAfterSubagent ==
    \A t \in Turns :
      /\ turn[t].subCancelled => turn[t].flagAtReturn # "none"
      /\ ~turn[t].callAfterSubCancel

\* C40: whenever no scheduler operation is under way (no job is executing),
\* the ids in the job file are the ids of the jobs registered with the engine.
C40_FileMatchesEngine ==
    SchedQuiet => Ids(LoadJobs(jobsF)) = Ids(engine)

====
